---- MODULE Spec2Model ----
(***************************************************************************)
(* A model of windows_main.py: the SFTP client's main window (profile      *)
(* registry), one connection tab (session) and its SSH terminal helper.    *)
(*                                                                         *)
(* Python strings are sequences of one-character strings, so that strip,   *)
(* rstrip, startswith and the posixpath functions are computed as Python   *)
(* computes them.  None is NoneStr where a string is expected.             *)
(***************************************************************************)
EXTENDS Naturals, Sequences, FiniteSets, TLC

\* ------------------------------------------------------------------------
\* Bounds of the model
\* ------------------------------------------------------------------------
\* longest remote_path the cd/descend handlers may build
MaxPathLen == 5
\* number of profiles ever added through the dialog
MaxProfiles == 2
\* depth of the modelled directory trees
MaxDepth == 2
\* chunks of shell output the remote side may produce
MaxChunks == 2
\* longest argument of a typed "cd" command
MaxArgLen == 2

\* ------------------------------------------------------------------------
\* Python string primitives
\* ------------------------------------------------------------------------
SLASH == "/"

NoneStr == << >>

StartsWith(s, p) == Len(s) >= Len(p) /\ SubSeq(s, 1, Len(p)) = p

EndsWith(s, p) == Len(s) >= Len(p) /\ SubSeq(s, Len(s) - Len(p) + 1, Len(s)) = p

\* s.rstrip(c)
RECURSIVE RStrip(_, _)
RStrip(s, c) ==
    IF s # << >> /\ s[Len(s)] = c THEN RStrip(SubSeq(s, 1, Len(s) - 1), c) ELSE s

\* s.lstrip(c)
RECURSIVE LStrip(_, _)
LStrip(s, c) ==
    IF s # << >> /\ s[1] = c THEN LStrip(Tail(s), c) ELSE s

\* s.strip() over the one whitespace character of the model
Strip(s) == LStrip(RStrip(s, " "), " ")

\* s.rfind(c) + 1: the position of the last c, 0 when there is none
RECURSIVE RFind1(_, _)
RFind1(s, c) ==
    IF s = << >> THEN 0
    ELSE IF s[Len(s)] = c THEN Len(s)
    ELSE RFind1(SubSeq(s, 1, Len(s) - 1), c)

AllSlashes(s) == \A i \in 1..Len(s) : s[i] = SLASH

\* s.split(c): the segments between the separators (always at least one)
RECURSIVE Split(_, _)
Split(s, c) ==
    LET i == RFind1(s, c) IN
    IF i = 0 THEN << s >>
    ELSE Append(Split(SubSeq(s, 1, i - 1), c), SubSeq(s, i + 1, Len(s)))

\* c.join(comps)
RECURSIVE JoinWith(_, _)
JoinWith(comps, c) ==
    IF comps = << >> THEN << >>
    ELSE IF Len(comps) = 1 THEN comps[1]
    ELSE JoinWith(SubSeq(comps, 1, Len(comps) - 1), c) \o << c >> \o comps[Len(comps)]

\* Python's "a or b" on strings (None and "" are both falsy)
StrOr(a, b) == IF a = << >> THEN b ELSE a

\* ------------------------------------------------------------------------
\* posixpath
\* ------------------------------------------------------------------------
\* posixpath.join(a, b)
posixpath_join(a, b) ==
    IF StartsWith(b, << SLASH >>) THEN b
    ELSE IF a = << >> \/ EndsWith(a, << SLASH >>) THEN a \o b
    ELSE a \o << SLASH >> \o b

\* posixpath.dirname(p)
posixpath_dirname(p) ==
    LET head == SubSeq(p, 1, RFind1(p, SLASH)) IN
    IF head # << >> /\ ~AllSlashes(head) THEN RStrip(head, SLASH) ELSE head

\* the component loop of posixpath.normpath
RECURSIVE NormComps(_, _, _)
NormComps(comps, new, initial_slashes) ==
    IF comps = << >> THEN new
    ELSE LET comp == Head(comps) IN
         IF comp = << >> \/ comp = << "." >>
         THEN NormComps(Tail(comps), new, initial_slashes)
         ELSE IF \/ comp # << ".", "." >>
                 \/ (initial_slashes = 0 /\ new = << >>)
                 \/ (new # << >> /\ new[Len(new)] = << ".", "." >>)
              THEN NormComps(Tail(comps), Append(new, comp), initial_slashes)
              ELSE IF new # << >>
                   THEN NormComps(Tail(comps), SubSeq(new, 1, Len(new) - 1), initial_slashes)
                   ELSE NormComps(Tail(comps), new, initial_slashes)

\* posixpath.normpath(path)
posixpath_normpath(path) ==
    IF path = << >> THEN << "." >>
    ELSE LET initial_slashes ==
                 IF ~StartsWith(path, << SLASH >>) THEN 0
                 ELSE IF StartsWith(path, << SLASH, SLASH >>)
                         /\ ~StartsWith(path, << SLASH, SLASH, SLASH >>) THEN 2
                 ELSE 1
             comps == NormComps(Split(path, SLASH), << >>, initial_slashes)
             body == JoinWith(comps, SLASH)
             res == IF initial_slashes = 0 THEN body
                    ELSE IF initial_slashes = 1 THEN << SLASH >> \o body
                    ELSE << SLASH, SLASH >> \o body
         IN  StrOr(res, << "." >>)

\* ------------------------------------------------------------------------
\* Directory trees: the remote filesystem behind the SFTP client and the
\* local filesystem behind os.  A tree maps every node path (a sequence of
\* names below the tree's root) to "none", "file" or "dir".
\* ------------------------------------------------------------------------
NameA == << "a" >>

NameB == << "b" >>

FsNames == { NameA, NameB }

\* the order in which a directory's entries are reported
FsNameSeq == << NameA, NameB >>

Nodes == UNION { [1..d -> FsNames] : d \in 1..MaxDepth }

Kind(fs, p) ==
    IF p = << >> THEN "dir" ELSE IF p \in DOMAIN fs THEN fs[p] ELSE "none"

Parent(p) == IF p = << >> THEN << >> ELSE SubSeq(p, 1, Len(p) - 1)

IsPrefix(p, q) == Len(p) <= Len(q) /\ SubSeq(q, 1, Len(p)) = p

HasChildren(fs, p) == \E n \in FsNames : Kind(fs, Append(p, n)) # "none"

\* the tree both sides start with: a/ (holding a/a/ and a/b) and the file b
InitFS ==
    [p \in Nodes |->
        IF p = << NameA >> THEN "dir"
        ELSE IF p = << NameB >> THEN "file"
        ELSE IF p = << NameA, NameA >> THEN "dir"
        ELSE IF p = << NameA, NameB >> THEN "file"
        ELSE "none"]

\* the names a directory listing reports, in order
RECURSIVE EntriesFrom(_, _, _)
EntriesFrom(fs, p, names) ==
    IF names = << >> THEN << >>
    ELSE LET n == Head(names)
             rest == EntriesFrom(fs, p, Tail(names))
         IN  IF Kind(fs, Append(p, n)) # "none" THEN << n >> \o rest ELSE rest

\* remove / os.remove: only a file can be removed
CanRemove(fs, p) == Kind(fs, p) = "file"

\* rmdir / os.rmdir: only an empty directory can be removed
CanRmdir(fs, p) == p # << >> /\ Kind(fs, p) = "dir" /\ ~HasChildren(fs, p)

Unlink(fs, p) == [fs EXCEPT ![p] = "none"]

\* mkdir: the parent exists and the name is free
CanMkdir(fs, p) == p \in Nodes /\ Kind(fs, p) = "none" /\ Kind(fs, Parent(p)) = "dir"

\* open(p, "w"): the parent exists and p is not a directory
CanOpenW(fs, p) == p \in Nodes /\ Kind(fs, p) # "dir" /\ Kind(fs, Parent(p)) = "dir"

\* rename: the source exists, the target name is free in an existing directory
CanRename(fs, src, dst) ==
    /\ src # << >> /\ dst \in Nodes
    /\ Kind(fs, src) # "none" /\ Kind(fs, dst) = "none"
    /\ Kind(fs, Parent(dst)) = "dir"
    /\ ~IsPrefix(src, dst)

Rename(fs, src, dst) ==
    [q \in Nodes |->
        IF IsPrefix(dst, q)
        THEN Kind(fs, src \o SubSeq(q, Len(dst) + 1, Len(q)))
        ELSE IF IsPrefix(src, q) THEN "none" ELSE fs[q]]

\* The server's resolution of a remote path string: every component is
\* walked from the root (a relative path starts at the login directory,
\* which is the root here); walking through anything but a directory fails.
RECURSIVE Walk(_, _, _)
Walk(fs, at, comps) ==
    IF comps = << >> THEN [ok |-> TRUE, path |-> at]
    ELSE LET c == Head(comps) IN
         IF c = << >> THEN Walk(fs, at, Tail(comps))
         ELSE IF Kind(fs, at) # "dir" THEN [ok |-> FALSE, path |-> at]
         ELSE IF c = << "." >> THEN Walk(fs, at, Tail(comps))
         ELSE IF c = << ".", "." >> THEN Walk(fs, Parent(at), Tail(comps))
         ELSE Walk(fs, Append(at, c), Tail(comps))

Resolve(fs, path) == Walk(fs, << >>, Split(path, SLASH))

\* ------------------------------------------------------------------------
\* The local side.  A local path is the sequence of its components from the
\* drive; "" is the empty sequence.  The local tree lfs is the tree below
\* the user's home directory; nothing outside it can be written.
\* ------------------------------------------------------------------------
DriveC == << "C", ":" >>

HomeName == << "u" >>

\* os.path.expanduser("~")
LocalHome == << DriveC, HomeName >>

\* "Cloned_From_" + server
ClonedFrom(server) == << "C", "l", "o", "n", "e", "d", "_", "F", "r", "o", "m", "_" >> \o server

LRel(p) == SubSeq(p, Len(LocalHome) + 1, Len(p))

InHome(p) == IsPrefix(LocalHome, p)

LKind(fs, p) ==
    IF p = << DriveC >> THEN "dir"
    ELSE IF InHome(p) THEN Kind(fs, LRel(p))
    ELSE "none"

\* os.listdir(p), for a directory p
LEntries(fs, p) ==
    IF p = << DriveC >> THEN << HomeName >> ELSE EntriesFrom(fs, LRel(p), FsNameSeq)

\* os.path.dirname(p): the drive root is its own parent
os_path_dirname(p) == IF Len(p) <= 1 THEN p ELSE SubSeq(p, 1, Len(p) - 1)

\* ------------------------------------------------------------------------
\* Connection profiles, the dialog that makes them, and their JSON form
\* ------------------------------------------------------------------------
\* int(text) of a decimal string
RECURSIVE ParseInt(_)
ParseInt(t) ==
    IF t = << >> THEN 0
    ELSE LET d == t[Len(t)]
             v == CASE d = "0" -> 0 [] d = "1" -> 1 [] d = "2" -> 2 [] d = "3" -> 3
                    [] d = "4" -> 4 [] d = "5" -> 5 [] d = "6" -> 6 [] d = "7" -> 7
                    [] d = "8" -> 8 [] OTHER -> 9
         IN  10 * ParseInt(SubSeq(t, 1, Len(t) - 1)) + v

\* ConfigDialog.get_data
get_data(d) ==
    [server      |-> Strip(d.server),
     port        |-> IF Strip(d.port) = << >> THEN 22 ELSE ParseInt(Strip(d.port)),
     username    |-> Strip(d.username),
     password    |-> d.password,
     keyfile     |-> StrOr(Strip(d.keyfile), NoneStr),
     remote_path |-> StrOr(Strip(d.remote_path), << SLASH >>),
     local_path  |-> d.local_path]

\* the cfg open_new_conn_dialog appends: local_path defaults to a folder
\* below the home directory
NewCfg(d) ==
    LET cfg == get_data(d) IN
    IF cfg.local_path = << >>
    THEN [cfg EXCEPT !.local_path = Append(LocalHome, ClonedFrom(cfg.server))]
    ELSE cfg

\* json.dump of one profile: every field becomes a typed JSON value
JStr(s) == [t |-> "string", s |-> s, n |-> 0]

JNum(n) == [t |-> "number", s |-> << >>, n |-> n]

JNull == [t |-> "null", s |-> << >>, n |-> 0]

JsonOfCfg(c) ==
    [server      |-> JStr(c.server),
     port        |-> JNum(c.port),
     username    |-> JStr(c.username),
     password    |-> JStr(c.password),
     keyfile     |-> IF c.keyfile = NoneStr THEN JNull ELSE JStr(c.keyfile),
     remote_path |-> JStr(c.remote_path),
     local_path  |-> JStr(c.local_path)]

\* json.load of one object
PyStr(j) == IF j.t = "null" THEN NoneStr ELSE j.s

CfgOfJson(o) ==
    [server      |-> PyStr(o.server),
     port        |-> o.port.n,
     username    |-> PyStr(o.username),
     password    |-> PyStr(o.password),
     keyfile     |-> PyStr(o.keyfile),
     remote_path |-> PyStr(o.remote_path),
     local_path  |-> PyStr(o.local_path)]

json_dump(cfgs) == [i \in 1..Len(cfgs) |-> JsonOfCfg(cfgs[i])]

json_load(text) == [i \in 1..Len(text) |-> CfgOfJson(text[i])]

MissingFile == [state |-> "missing", text |-> << >>]

CorruptFile == [state |-> "corrupt", text |-> << >>]

\* AppWindow.save_configs: the file after the call.  The write can fail
\* before the file is opened (it is left as it was) or while it is written
\* (it is left truncated); either failure is printed and swallowed.
save_configs(cfgs, file, outcome) ==
    IF outcome = "ok" THEN [state |-> "ok", text |-> json_dump(cfgs)]
    ELSE IF outcome = "open_fails" THEN file
    ELSE CorruptFile

SaveOutcomes == { "ok", "open_fails", "write_fails" }

\* AppWindow.load_saved_configs
load_saved_configs(file) ==
    IF file.state = "ok" THEN json_load(file.text) ELSE << >>

\* ------------------------------------------------------------------------
\* State
\* ------------------------------------------------------------------------
VARIABLES
    saved_configs,  \* AppWindow.saved_configs
    config_file,    \* the contents of CONFIG_FILE
    added,          \* history: every profile appended through the dialog
    tabs,           \* the profiles of the open connection tabs, in tab order
    pc,             \* "idle", or "ctor" inside ConnectionTab.__init__
    boot,           \* index of the next saved profile AppWindow.__init__ opens, 0 when done
    tab,            \* the session followed (the tab made last): "none", "ctor", "open", "closed"
    cfg,            \* its profile
    remote_path, local_path,
    transport, sftp,        \* "None", "open" or "closed"
    ssh_terminal,           \* its SSHTerminal
    remote_list, local_list,
    remote_label, local_label,
    thread,         \* the reader thread: "none", "loop" or "exited"
    listener,       \* output_received is connected to the terminal view
    inbuf,          \* chunks waiting on the channel
    term,           \* chunks appended to the terminal view
    dropped,        \* chunks emitted while nothing was connected
    rfs, lfs,       \* the remote and the local directory tree
    op, log, raised \* the last handler, the calls it made, the exception that left it

regVars == << saved_configs, config_file, added, tabs >>

ctlVars == << pc, boot, tab >>

sessVars == << cfg, remote_path, local_path, transport, sftp, ssh_terminal,
               remote_list, local_list, remote_label, local_label >>

shellVars == << thread, listener, inbuf, term, dropped >>

fsVars == << rfs, lfs >>

obsVars == << op, log, raised >>

vars == << regVars, ctlVars, sessVars, shellVars, fsVars, obsVars >>

\* SSHTerminal.__init__; made is FALSE while ConnectionTab.ssh_terminal is None
NoTerminal ==
    [made |-> FALSE, channel |-> "None", pty |-> FALSE, shell |-> FALSE, running |-> FALSE]

NewTerminal == [NoTerminal EXCEPT !.made = TRUE]

NoCfg ==
    [server |-> << >>, port |-> 0, username |-> << >>, password |-> << >>,
     keyfile |-> NoneStr, remote_path |-> << >>, local_path |-> << >>]

\* no ConnectionTab has been constructed in this run of the program
NoSession ==
    /\ tab = "none" /\ cfg = NoCfg
    /\ remote_path = << >> /\ local_path = << >>
    /\ transport = "None" /\ sftp = "None" /\ ssh_terminal = NoTerminal
    /\ remote_list = << >> /\ local_list = << >>
    /\ remote_label = << >> /\ local_label = << >>
    /\ thread = "none" /\ listener = FALSE /\ inbuf = 0 /\ term = 0 /\ dropped = 0

\* AppWindow.__init__ on a machine that has no CONFIG_FILE yet
Init ==
    /\ saved_configs = << >> /\ config_file = MissingFile /\ added = << >>
    /\ tabs = << >> /\ pc = "idle" /\ boot = 0
    /\ NoSession
    /\ rfs = InitFS /\ lfs = InitFS
    /\ op = "init" /\ log = << >> /\ raised = "None"

\* ------------------------------------------------------------------------
\* Listings
\* ------------------------------------------------------------------------
DotDot == << ".", "." >>

\* a QListWidgetItem: its text and its Qt.UserRole data (None for "..")
ParentItem == [text |-> DotDot, data |-> NoneStr]

EntryItem(name, kind) ==
    [text |-> IF kind = "dir" THEN name \o << SLASH >> ELSE name, data |-> name]

\* sftp.listdir_attr(path) succeeds
CanListRemote(client, fs, path) ==
    LET r == Resolve(fs, path) IN client = "open" /\ r.ok /\ Kind(fs, r.path) = "dir"

RemoteItems(fs, path) ==
    LET at == Resolve(fs, path).path
        names == EntriesFrom(fs, at, FsNameSeq)
    IN  [i \in 1..Len(names) |-> EntryItem(names[i], Kind(fs, Append(at, names[i])))]

\* ConnectionTab.list_remote_files: the list widget after the call
list_remote_files(client, fs, path, shown) ==
    IF CanListRemote(client, fs, path)
    THEN << ParentItem >> \o RemoteItems(fs, path)
    ELSE << ParentItem >>

LocalItems(fs, path) ==
    LET names == LEntries(fs, path)
    IN  [i \in 1..Len(names) |-> EntryItem(names[i], LKind(fs, Append(path, names[i])))]

\* ConnectionTab.list_local_files: the list widget after the call
list_local_files(fs, path, shown) ==
    IF LKind(fs, path) = "dir"
    THEN << ParentItem >> \o LocalItems(fs, path)
    ELSE << ParentItem >>

RemoteListEvent(client, fs, path) ==
    IF CanListRemote(client, fs, path) THEN "list_remote" ELSE "list_remote_failed"

LocalListEvent(fs, path) ==
    IF LKind(fs, path) = "dir" THEN "list_local" ELSE "list_local_failed"

\* the refresh every handler ends with: remote_list and remote_label after it
RefreshRemote(client, fs, path) ==
    /\ remote_list' = list_remote_files(client, fs, path, remote_list)
    /\ remote_label' = IF CanListRemote(client, fs, path) THEN path ELSE remote_label

RefreshLocal(fs, path) ==
    /\ local_list' = list_local_files(fs, path, local_list)
    /\ local_label' = IF LKind(fs, path) = "dir" THEN path ELSE local_label

\* ------------------------------------------------------------------------
\* ConnectionTab.__init__ and connect_all
\* ------------------------------------------------------------------------
\* where the second try block of connect_all stops: at one of its calls
\* that raises (Transport(), t.connect, SFTPClient.from_transport), or,
\* inside SSHTerminal.open, at open_session, get_pty or invoke_shell
ConnectOutcomes ==
    { "transport_fails", "auth_fails", "sftp_fails",
      "session_fails", "pty_fails", "shell_fails", "ok" }

\* SSHTerminal.open: the terminal after the call
open(co) ==
    IF co = "session_fails" THEN NewTerminal
    ELSE IF co = "pty_fails" THEN [NewTerminal EXCEPT !.channel = "live"]
    ELSE IF co = "shell_fails" THEN [NewTerminal EXCEPT !.channel = "live", !.pty = TRUE]
    ELSE [made |-> TRUE, channel |-> "live", pty |-> TRUE, shell |-> TRUE, running |-> TRUE]

\* SSHTerminal.open returns True
OpenSucceeds(co) == co = "ok"

\* connect_all raises into its except clause
ConnectRaises(co) == co \in { "transport_fails", "auth_fails", "sftp_fails" }

\* connect_all up to the return of SSHTerminal.open: what the session holds
connect_all(co) ==
    /\ transport' = IF co \in { "transport_fails", "auth_fails" } THEN "None" ELSE "open"
    /\ sftp' = IF ConnectRaises(co) THEN "None" ELSE "open"
    /\ ssh_terminal' = IF ConnectRaises(co) THEN NoTerminal ELSE open(co)
    /\ thread' = IF ~ConnectRaises(co) /\ OpenSucceeds(co) THEN "loop" ELSE "none"

ConnectEvents(co) ==
    << "connect" >> \o (IF ConnectRaises(co) THEN << "error_dialog" >> ELSE << >>)

\* ConnectionTab.__init__ for profile c, through connect_all up to the
\* return of SSHTerminal.open; the reader thread may run before CtorFinish
CtorBegin(c, co) ==
    /\ cfg' = c
    /\ remote_path' = c.remote_path
    /\ local_path' = StrOr(c.local_path, LocalHome)
    /\ remote_label' = c.remote_path
    /\ local_label' = StrOr(c.local_path, LocalHome)
    /\ remote_list' = << >> /\ local_list' = << >>
    /\ connect_all(co)
    /\ listener' = FALSE /\ inbuf' = 0 /\ term' = 0 /\ dropped' = 0
    /\ tab' = "ctor" /\ pc' = "ctor"
    /\ raised' = "None"
    /\ UNCHANGED fsVars

\* the rest of ConnectionTab.__init__: output_received.connect (when
\* connect_all got that far), list_remote_files, list_local_files; then
\* add_connection_tab adds the tab
CtorFinish ==
    /\ pc = "ctor"
    /\ listener' = ssh_terminal.made
    /\ RefreshRemote(sftp, rfs, remote_path)
    /\ RefreshLocal(lfs, local_path)
    /\ log' = log \o << RemoteListEvent(sftp, rfs, remote_path), LocalListEvent(lfs, local_path) >>
    /\ tabs' = Append(tabs, cfg)
    /\ tab' = "open" /\ pc' = "idle"
    /\ boot' = IF boot = 0 \/ boot >= Len(saved_configs) THEN 0 ELSE boot + 1
    /\ UNCHANGED << saved_configs, config_file, added, cfg, remote_path, local_path,
                    transport, sftp, ssh_terminal, thread, inbuf, term, dropped,
                    rfs, lfs, op, raised >>

\* ------------------------------------------------------------------------
\* AppWindow: the registry of profiles and the tabs
\* ------------------------------------------------------------------------
Idle == pc = "idle" /\ boot = 0

\* AppWindow.open_new_conn_dialog with the dialog accepted; d is what the
\* user typed, so whether the write of CONFIG_FILE succeeds
open_new_conn_dialog(d, so, co) ==
    /\ Idle
    /\ Len(added) < MaxProfiles
    /\ LET c == NewCfg(d) IN
       /\ saved_configs' = Append(saved_configs, c)
       /\ added' = Append(added, c)
       /\ config_file' = save_configs(Append(saved_configs, c), config_file, so)
       /\ CtorBegin(c, co)
    /\ op' = "open_new_conn_dialog"
    /\ log' = << IF so = "ok" THEN "save_configs" ELSE "save_configs_failed" >>
                \o ConnectEvents(co)
    /\ UNCHANGED << tabs, boot >>

\* the program is quit and started again: AppWindow.__init__ loads the
\* saved profiles; every object of the previous run is gone
Restart ==
    /\ Idle
    /\ saved_configs' = load_saved_configs(config_file)
    /\ tabs' = << >>
    /\ pc' = "idle"
    /\ boot' = IF load_saved_configs(config_file) = << >> THEN 0 ELSE 1
    /\ tab' = "none" /\ cfg' = NoCfg
    /\ remote_path' = << >> /\ local_path' = << >>
    /\ transport' = "None" /\ sftp' = "None" /\ ssh_terminal' = NoTerminal
    /\ remote_list' = << >> /\ local_list' = << >>
    /\ remote_label' = << >> /\ local_label' = << >>
    /\ thread' = "none" /\ listener' = FALSE /\ inbuf' = 0 /\ term' = 0 /\ dropped' = 0
    /\ op' = "restart" /\ log' = << >> /\ raised' = "None"
    /\ UNCHANGED << config_file, added, rfs, lfs >>

\* one round of "for cfg in self.saved_configs: self.add_connection_tab(cfg)"
StartupAddTab(co) ==
    /\ pc = "idle" /\ boot > 0
    /\ CtorBegin(saved_configs[boot], co)
    /\ op' = "startup"
    /\ log' = ConnectEvents(co)
    /\ UNCHANGED << regVars, boot >>

RemoveAt(seq, i) == SubSeq(seq, 1, i - 1) \o SubSeq(seq, i + 1, Len(seq))

\* SSHTerminal.close: never raises; f is TRUE when channel.close() raises
close(t, f) ==
    [t EXCEPT !.running = FALSE,
              !.channel = IF t.channel = "live" /\ ~f THEN "closed" ELSE t.channel]

\* the calls the try block of close_tab makes on a session, given which of
\* them raise: the first raise of sftp.close or transport.close ends the block
CloseCalls(t, client, trans, f) ==
    (IF t.made THEN << "ssh_terminal.close" >> ELSE << >>)
    \o (IF client # "None" THEN << "sftp.close" >> ELSE << >>)
    \o (IF trans # "None" /\ ~(client # "None" /\ f.sftp)
        THEN << "transport.close" >> ELSE << >>)

Called(e, calls) == \E i \in 1..Len(calls) : calls[i] = e

\* AppWindow.close_tab(index) on the tab of the session followed
CloseTab(f) ==
    /\ Idle /\ tab = "open"
    /\ LET calls == CloseCalls(ssh_terminal, sftp, transport, f)
           transport_closed == Called("transport.close", calls) /\ ~f.transport
           sftp_closed == Called("sftp.close", calls) /\ ~f.sftp
           t1 == IF ssh_terminal.made THEN close(ssh_terminal, f.shell) ELSE ssh_terminal
       IN  /\ log' = calls
           /\ transport' = IF transport_closed THEN "closed" ELSE transport
           /\ sftp' = IF sftp_closed \/ (transport_closed /\ sftp = "open")
                      THEN "closed" ELSE sftp
           /\ ssh_terminal' =
                  IF transport_closed /\ t1.channel = "live"
                  THEN [t1 EXCEPT !.channel = "closed"] ELSE t1
    /\ tabs' = RemoveAt(tabs, Len(tabs))
    /\ tab' = "closed"
    /\ op' = "close_tab" /\ raised' = "None"
    /\ UNCHANGED << saved_configs, config_file, added, pc, boot, cfg, remote_path,
                    local_path, remote_list, local_list, remote_label, local_label,
                    shellVars, fsVars >>

\* AppWindow.close_tab(index) on another connection tab: that session is
\* torn down, the one followed is not touched
CloseOtherTab(i) ==
    /\ Idle
    /\ i \in 1..Len(tabs)
    /\ ~(tab = "open" /\ i = Len(tabs))
    /\ tabs' = RemoveAt(tabs, i)
    /\ op' = "close_other_tab" /\ log' = << >> /\ raised' = "None"
    /\ UNCHANGED << saved_configs, config_file, added, ctlVars, sessVars, shellVars, fsVars >>

CloseFlags == [shell : BOOLEAN, sftp : BOOLEAN, transport : BOOLEAN]

\* ------------------------------------------------------------------------
\* ConnectionTab: navigation and the terminal line
\* ------------------------------------------------------------------------
\* the user can act on the session followed
Ready == Idle /\ tab = "open"

\* a handler that changes nothing but what it reports
Reports(name, calls, exc) ==
    /\ op' = name /\ log' = calls /\ raised' = exc
    /\ UNCHANGED << regVars, ctlVars, sessVars, shellVars, fsVars >>

\* "it.data(Qt.UserRole) or it.text()"
ItemName(it) == StrOr(it.data, it.text)

\* remote_parent with the rstrip("/") left out
remote_parent_nostrip(path) == StrOr(posixpath_dirname(path), << SLASH >>)

\* remote_double on "..": the new remote_path
remote_parent(path) == StrOr(posixpath_dirname(RStrip(path, SLASH)), << SLASH >>)

\* ConnectionTab.is_dir: a failing stat counts as "not a directory"
is_dir(client, fs, path) ==
    LET r == Resolve(fs, path) IN client = "open" /\ r.ok /\ Kind(fs, r.path) = "dir"

\* sftp.get(path, tmpfile) succeeds
CanGet(client, fs, path) ==
    LET r == Resolve(fs, path) IN client = "open" /\ r.ok /\ Kind(fs, r.path) = "file"

\* a handler that moves the remote cursor to path and refreshes the listing
GoRemote(name, path, after, exc) ==
    /\ Len(path) <= MaxPathLen
    /\ remote_path' = path
    /\ RefreshRemote(sftp, rfs, path)
    /\ op' = name /\ raised' = exc
    /\ log' = << RemoteListEvent(sftp, rfs, path) >> \o after
    /\ UNCHANGED << regVars, ctlVars, cfg, local_path, transport, sftp, ssh_terminal,
                    local_list, local_label, shellVars, fsVars >>

\* ConnectionTab.list_remote_files from the refresh button
ListRemoteFiles ==
    /\ Ready
    /\ GoRemote("list_remote_files", remote_path, << >>, "None")

\* ConnectionTab.remote_double on item i of the remote list
RemoteDouble(i) ==
    /\ Ready
    /\ i \in 1..Len(remote_list)
    /\ LET name == ItemName(remote_list[i])
           path == posixpath_join(remote_path, name)
       IN  IF name = DotDot
           THEN GoRemote("remote_double", remote_parent(remote_path), << >>, "None")
           ELSE IF is_dir(sftp, rfs, path)
           THEN GoRemote("remote_double", path, << >>, "None")
           ELSE Reports("remote_double",
                        IF CanGet(sftp, rfs, path) THEN << "startfile" >>
                        ELSE << "error_dialog" >>, "None")

\* a handler that moves the local cursor to path and refreshes the listing
GoLocal(name, path) ==
    /\ local_path' = path
    /\ RefreshLocal(lfs, path)
    /\ op' = name /\ raised' = "None"
    /\ log' = << LocalListEvent(lfs, path) >>
    /\ UNCHANGED << regVars, ctlVars, cfg, remote_path, transport, sftp, ssh_terminal,
                    remote_list, remote_label, shellVars, fsVars >>

\* ConnectionTab.list_local_files from the refresh button
ListLocalFiles ==
    /\ Ready
    /\ GoLocal("list_local_files", local_path)

\* ConnectionTab.local_double on item i of the local list
LocalDouble(i) ==
    /\ Ready
    /\ i \in 1..Len(local_list)
    /\ LET name == ItemName(local_list[i])
           path == Append(local_path, name)
       IN  IF name = DotDot
           THEN GoLocal("local_double", StrOr(os_path_dirname(local_path), local_path))
           ELSE IF LKind(lfs, path) = "dir"
           THEN GoLocal("local_double", path)
           ELSE Reports("local_double",
                        IF LKind(lfs, path) = "file" THEN << "startfile" >>
                        ELSE << "error_dialog" >>, "None")

CD == << "c", "d", " " >>

\* cd_target with the join onto the current path left out
cd_target_nojoin(path, t) ==
    posixpath_normpath(Strip(SubSeq(t, Len(CD) + 1, Len(t))))

\* send_term on "cd <arg>": the new remote_path
cd_target(path, t) ==
    posixpath_normpath(posixpath_join(path, Strip(SubSeq(t, Len(CD) + 1, Len(t)))))

\* SSHTerminal.send: the call it makes, or the exception that leaves it
\* (ssh_terminal is None; the channel is closed)
SendRaises(t) ==
    IF ~t.made THEN "AttributeError"
    ELSE IF t.channel = "closed" THEN "OSError"
    ELSE "None"

SendCalls(t) == IF t.made /\ t.channel = "live" THEN << "channel.send" >> ELSE << >>

\* ConnectionTab.send_term with text typed into the terminal line
SendTerm(text) ==
    /\ Ready
    /\ LET t == Strip(text) IN
       IF t = << >>
       THEN Reports("send_term", << >>, "None")
       ELSE IF StartsWith(t, CD)
       THEN GoRemote("send_term", cd_target(remote_path, t),
                     SendCalls(ssh_terminal), SendRaises(ssh_terminal))
       ELSE Reports("send_term", SendCalls(ssh_terminal), SendRaises(ssh_terminal))

\* ------------------------------------------------------------------------
\* ConnectionTab: the context-menu actions
\* ------------------------------------------------------------------------
\* a remote action that succeeded: the tree after it, then list_remote_files
RemoteDone(name, calls, fs) ==
    /\ rfs' = fs
    /\ RefreshRemote(sftp, fs, remote_path)
    /\ op' = name /\ raised' = "None"
    /\ log' = calls \o << RemoteListEvent(sftp, fs, remote_path) >>
    /\ UNCHANGED << regVars, ctlVars, cfg, remote_path, local_path, transport, sftp,
                    ssh_terminal, local_list, local_label, shellVars, lfs >>

\* a local action that succeeded: the tree after it, then list_local_files
LocalDone(name, calls, fs) ==
    /\ lfs' = fs
    /\ RefreshLocal(fs, local_path)
    /\ op' = name /\ raised' = "None"
    /\ log' = calls \o << LocalListEvent(fs, local_path) >>
    /\ UNCHANGED << regVars, ctlVars, cfg, remote_path, local_path, transport, sftp,
                    ssh_terminal, remote_list, remote_label, shellVars, rfs >>

\* the tree can hold the node a path resolves to (or the call fails anyway)
Holds(fs, r) == ~r.ok \/ Kind(fs, Parent(r.path)) # "dir" \/ r.path \in Nodes \/ r.path = << >>

\* ConnectionTab.rename_remote on item i, the input dialog accepted with new
RenameRemote(i, new) ==
    /\ Ready
    /\ i \in 1..Len(remote_list)
    /\ LET n == remote_list[i].data
           src == Resolve(rfs, posixpath_join(remote_path, n))
           dst == Resolve(rfs, posixpath_join(remote_path, new))
       IN  /\ Holds(rfs, dst)
           /\ IF n = NoneStr THEN Reports("rename_remote", << >>, "TypeError")
              ELSE IF sftp # "open" THEN Reports("rename_remote", << >>, "AttributeError")
              ELSE IF src.ok /\ dst.ok /\ CanRename(rfs, src.path, dst.path)
              THEN RemoteDone("rename_remote", << "rename" >>, Rename(rfs, src.path, dst.path))
              ELSE Reports("rename_remote", << "rename" >>, "IOError")

\* ConnectionTab.delete_remote on item i: remove, and rmdir when remove raises
DeleteRemote(i) ==
    /\ Ready
    /\ i \in 1..Len(remote_list)
    /\ LET n == remote_list[i].data
           r == Resolve(rfs, posixpath_join(remote_path, n))
       IN  IF n = NoneStr THEN Reports("delete_remote", << >>, "TypeError")
           ELSE IF sftp # "open" THEN Reports("delete_remote", << >>, "AttributeError")
           ELSE IF r.ok /\ CanRemove(rfs, r.path)
           THEN RemoteDone("delete_remote", << "remove" >>, Unlink(rfs, r.path))
           ELSE IF r.ok /\ CanRmdir(rfs, r.path)
           THEN RemoteDone("delete_remote", << "remove", "rmdir" >>, Unlink(rfs, r.path))
           ELSE Reports("delete_remote", << "remove", "rmdir" >>, "IOError")

\* ConnectionTab.create_remote_file, the input dialog accepted with n
CreateRemoteFile(n) ==
    /\ Ready
    /\ LET r == Resolve(rfs, posixpath_join(remote_path, n)) IN
       /\ Holds(rfs, r)
       /\ IF sftp # "open" THEN Reports("create_remote_file", << >>, "AttributeError")
          ELSE IF r.ok /\ CanOpenW(rfs, r.path)
          THEN RemoteDone("create_remote_file", << "open" >>, [rfs EXCEPT ![r.path] = "file"])
          ELSE Reports("create_remote_file", << "open" >>, "IOError")

\* ConnectionTab.create_remote_dir, the input dialog accepted with n
CreateRemoteDir(n) ==
    /\ Ready
    /\ LET r == Resolve(rfs, posixpath_join(remote_path, n)) IN
       /\ Holds(rfs, r)
       /\ IF sftp # "open" THEN Reports("create_remote_dir", << >>, "AttributeError")
          ELSE IF r.ok /\ CanMkdir(rfs, r.path)
          THEN RemoteDone("create_remote_dir", << "mkdir" >>, [rfs EXCEPT ![r.path] = "dir"])
          ELSE Reports("create_remote_dir", << "mkdir" >>, "IOError")

\* ConnectionTab.upload_file on item i of the local list: only sftp.put is
\* inside the try block
UploadFile(i) ==
    /\ Ready
    /\ i \in 1..Len(local_list)
    /\ LET n == local_list[i].data
           src == Append(local_path, n)
           dst == Resolve(rfs, posixpath_join(remote_path, n))
       IN  /\ Holds(rfs, dst)
           /\ IF n = NoneStr THEN Reports("upload_file", << >>, "TypeError")
              ELSE IF /\ sftp = "open" /\ LKind(lfs, src) = "file"
                      /\ dst.ok /\ CanOpenW(rfs, dst.path)
              THEN RemoteDone("upload_file", << "put" >>, [rfs EXCEPT ![dst.path] = "file"])
              ELSE Reports("upload_file", << "put", "error_dialog" >>, "None")

\* a local path the program can write: below the home directory
Writable(p) == InHome(p) /\ Len(p) > Len(LocalHome)

LHolds(fs, p) ==
    ~Writable(p) \/ Kind(fs, Parent(LRel(p))) # "dir" \/ LRel(p) \in Nodes

\* ConnectionTab.rename_local on item i, the input dialog accepted with new
RenameLocal(i, new) ==
    /\ Ready
    /\ i \in 1..Len(local_list)
    /\ LET n == local_list[i].data
           src == Append(local_path, n)
           dst == Append(local_path, new)
       IN  /\ LHolds(lfs, dst)
           /\ IF n = NoneStr THEN Reports("rename_local", << >>, "TypeError")
              ELSE IF Writable(src) /\ CanRename(lfs, LRel(src), LRel(dst))
              THEN LocalDone("rename_local", << "rename" >>, Rename(lfs, LRel(src), LRel(dst)))
              ELSE Reports("rename_local", << "rename" >>, "OSError")

\* ConnectionTab.delete_local on item i: os.remove, and os.rmdir when it raises
DeleteLocal(i) ==
    /\ Ready
    /\ i \in 1..Len(local_list)
    /\ LET n == local_list[i].data
           p == Append(local_path, n)
       IN  IF n = NoneStr THEN Reports("delete_local", << >>, "TypeError")
           ELSE IF Writable(p) /\ CanRemove(lfs, LRel(p))
           THEN LocalDone("delete_local", << "remove" >>, Unlink(lfs, LRel(p)))
           ELSE IF Writable(p) /\ CanRmdir(lfs, LRel(p))
           THEN LocalDone("delete_local", << "remove", "rmdir" >>, Unlink(lfs, LRel(p)))
           ELSE Reports("delete_local", << "remove", "rmdir" >>, "OSError")

\* ConnectionTab.create_local_file, the input dialog accepted with n
CreateLocalFile(n) ==
    /\ Ready
    /\ LET p == Append(local_path, n) IN
       /\ LHolds(lfs, p)
       /\ IF Writable(p) /\ CanOpenW(lfs, LRel(p))
          THEN LocalDone("create_local_file", << "open" >>, [lfs EXCEPT ![LRel(p)] = "file"])
          ELSE Reports("create_local_file", << "open" >>, "OSError")

\* ConnectionTab.create_local_dir, the input dialog accepted with n:
\* os.makedirs(p, exist_ok=True) inside an existing directory
CreateLocalDir(n) ==
    /\ Ready
    /\ LKind(lfs, local_path) = "dir"
    /\ LET p == Append(local_path, n) IN
       /\ LHolds(lfs, p)
       /\ IF Writable(p) /\ Kind(lfs, LRel(p)) = "dir"
          THEN LocalDone("create_local_dir", << "makedirs" >>, lfs)
          ELSE IF Writable(p) /\ CanMkdir(lfs, LRel(p))
          THEN LocalDone("create_local_dir", << "makedirs" >>, [lfs EXCEPT ![LRel(p)] = "dir"])
          ELSE Reports("create_local_dir", << "makedirs" >>, "OSError")

\* ------------------------------------------------------------------------
\* The reader thread and the remote end of the shell channel
\* ------------------------------------------------------------------------
\* the remote shell writes a chunk of output
ChannelData ==
    /\ ssh_terminal.channel = "live" /\ ssh_terminal.shell
    /\ inbuf + term + dropped < MaxChunks
    /\ inbuf' = inbuf + 1
    /\ UNCHANGED << regVars, ctlVars, sessVars, thread, listener, term, dropped,
                    fsVars, obsVars >>

\* the remote end closes the channel (the shell exits, the server goes away)
RemoteCloses ==
    /\ ssh_terminal.channel = "live"
    /\ ssh_terminal' = [ssh_terminal EXCEPT !.channel = "closed"]
    /\ UNCHANGED << regVars, ctlVars, cfg, remote_path, local_path, transport, sftp,
                    remote_list, local_list, remote_label, local_label,
                    shellVars, fsVars, obsVars >>

\* a loop condition that does not look at _running
ReaderRuns_norunning(t) == t.channel = "live"

\* the loop condition of SSHTerminal._reader
ReaderRuns(t) == t.running /\ t.channel = "live"

\* one round of SSHTerminal._reader with recv_ready(): recv, then emit; a
\* signal nothing is connected to is delivered to nobody
ReaderStep ==
    /\ thread = "loop" /\ ReaderRuns(ssh_terminal)
    /\ inbuf > 0
    /\ inbuf' = inbuf - 1
    /\ IF listener THEN term' = term + 1 /\ UNCHANGED dropped
       ELSE dropped' = dropped + 1 /\ UNCHANGED term
    /\ UNCHANGED << regVars, ctlVars, sessVars, thread, listener, fsVars, obsVars >>

\* SSHTerminal._reader leaves its loop
ReaderExit ==
    /\ thread = "loop" /\ ~ReaderRuns(ssh_terminal)
    /\ thread' = "exited"
    /\ UNCHANGED << regVars, ctlVars, sessVars, listener, inbuf, term, dropped,
                    fsVars, obsVars >>

\* ------------------------------------------------------------------------
\* Inputs
\* ------------------------------------------------------------------------
\* what the user types into ConfigDialog
BaseDialog ==
    [server |-> << "h" >>, port |-> << "2", "2" >>, username |-> << "u" >>,
     password |-> << "p" >>, keyfile |-> << >>, remote_path |-> << SLASH >>,
     local_path |-> LocalHome]

\* remote paths typed into the dialog ("" leaves the field empty)
TypedRemote ==
    { << >>, << SLASH, "a" >>, << "a" >>, << SLASH, SLASH, "a" >>,
      << SLASH, "a", SLASH >>, << " ", SLASH, "a", SLASH, "a", " " >> }

NavDialogs == { [BaseDialog EXCEPT !.remote_path = r] : r \in TypedRemote }

RegDialogs ==
    { [BaseDialog EXCEPT !.port = << >>, !.local_path = << >>],
      [BaseDialog EXCEPT !.remote_path = << SLASH, "a" >>, !.keyfile = << " ", "k" >>] }

ActDialogs ==
    { BaseDialog, [BaseDialog EXCEPT !.remote_path = << SLASH, "a" >>, !.local_path = << >>] }

PathChars == { SLASH, "a", "." }

CdArgs == UNION { [1..n -> PathChars] : n \in 1..MaxArgLen }

\* lines typed into the terminal
CmdTexts ==
    { << >>, << " " >>, << "l", "s" >>, << " ", "c", "d", " ", " ", "a", " " >> }
    \cup { CD \o a : a \in CdArgs }

\* ------------------------------------------------------------------------
\* Specifications
\* ------------------------------------------------------------------------
\* the registry: profiles, tabs, restarts
NextRegistry ==
    \/ \E d \in RegDialogs, so \in SaveOutcomes, co \in ConnectOutcomes :
           open_new_conn_dialog(d, so, co)
    \/ CtorFinish
    \/ Restart
    \/ \E co \in ConnectOutcomes : StartupAddTab(co)
    \/ \E f \in CloseFlags : CloseTab(f)
    \/ \E i \in 1..MaxProfiles : CloseOtherTab(i)

SpecRegistry == Init /\ [][NextRegistry]_vars

\* one session's remote cursor, from the first tab a run opens: listing,
\* double clicks, the terminal line
NextNavigation ==
    \/ \E d \in NavDialogs, co \in ConnectOutcomes :
           tab = "none" /\ open_new_conn_dialog(d, "ok", co)
    \/ CtorFinish
    \/ ListRemoteFiles
    \/ \E i \in 1..(Cardinality(FsNames) + 1) : RemoteDouble(i)
    \/ \E text \in CmdTexts : SendTerm(text)

SpecNavigation == Init /\ [][NextNavigation]_vars

\* one session's context-menu actions on both trees
NextActions ==
    \/ \E d \in ActDialogs, co \in { "ok", "auth_fails" } :
           tab = "none" /\ open_new_conn_dialog(d, "ok", co)
    \/ CtorFinish
    \/ \E i \in 1..(Cardinality(FsNames) + 1), new \in FsNames : RenameRemote(i, new)
    \/ \E i \in 1..(Cardinality(FsNames) + 1) : DeleteRemote(i)
    \/ \E n \in FsNames : CreateRemoteFile(n)
    \/ \E n \in FsNames : CreateRemoteDir(n)
    \/ \E i \in 1..(Cardinality(FsNames) + 1) : UploadFile(i)
    \/ \E i \in 1..(Cardinality(FsNames) + 1), new \in FsNames : RenameLocal(i, new)
    \/ \E i \in 1..(Cardinality(FsNames) + 1) : DeleteLocal(i)
    \/ \E n \in FsNames : CreateLocalFile(n)
    \/ \E n \in FsNames : CreateLocalDir(n)

SpecActions == Init /\ [][NextActions]_vars

\* one session's terminal: the channel, the reader thread, the teardown
NextShell ==
    \/ \E co \in ConnectOutcomes : open_new_conn_dialog(BaseDialog, "ok", co)
    \/ CtorFinish
    \/ \E text \in { << "l", "s" >> } : SendTerm(text)
    \/ \E f \in CloseFlags : CloseTab(f)
    \/ ChannelData
    \/ RemoteCloses
    \/ ReaderStep
    \/ ReaderExit

SpecShell == Init /\ [][NextShell]_vars

\* one session from its construction to its teardown, with the reader thread
\* scheduled fairly: a step of _reader that stays possible is taken
NextReader ==
    \/ \E co \in ConnectOutcomes :
          tab = "none" /\ open_new_conn_dialog(BaseDialog, "ok", co)
    \/ CtorFinish
    \/ \E f \in CloseFlags : CloseTab(f)
    \/ ChannelData
    \/ RemoteCloses
    \/ ReaderStep
    \/ ReaderExit

SpecReader ==
    Init /\ [][NextReader]_vars /\ WF_vars(ReaderStep) /\ WF_vars(ReaderExit)

\* the whole program
Next ==
    \/ NextRegistry
    \/ NextNavigation
    \/ NextActions
    \/ NextShell
    \/ ListLocalFiles
    \/ \E i \in 1..(Cardinality(FsNames) + 1) : LocalDouble(i)

Spec == Init /\ [][Next]_vars

\* ------------------------------------------------------------------------
\* Properties
\* ------------------------------------------------------------------------
Count(e, calls) == Cardinality({ i \in 1..Len(calls) : calls[i] = e })

Rooted(path) == StartsWith(path, << SLASH >>)

\* C1: when a tab is closed, every close call the session has an object for
\* (shell reader, SFTP client, transport) is made whichever of them raise,
\* and nothing is raised out of close_tab.
C1_AllClosesAttempted ==
    op = "close_tab" =>
        /\ raised = "None"
        /\ ssh_terminal.made => Called("ssh_terminal.close", log)
        /\ sftp # "None" => Called("sftp.close", log)
        /\ transport # "None" => Called("transport.close", log)

\* C2: a remote listing that fails raises nothing out of list_remote_files
\* and leaves the remote list showing the entries it showed before.
C2_FailedListingKeepsEntries ==
    [][Called("list_remote_failed", log') =>
          /\ remote_list' = remote_list
          /\ op' = "list_remote_files" => raised' = "None"]_vars

\* the entry behind item i of a list is a directory that is not empty
NonEmptyRemoteDir(i) ==
    LET r == Resolve(rfs, posixpath_join(remote_path, remote_list[i].data)) IN
    /\ i \in 1..Len(remote_list) /\ remote_list[i].data # NoneStr
    /\ r.ok /\ Kind(rfs, r.path) = "dir" /\ HasChildren(rfs, r.path)

NonEmptyLocalDir(i) ==
    LET p == Append(local_path, local_list[i].data) IN
    /\ i \in 1..Len(local_list) /\ local_list[i].data # NoneStr
    /\ Writable(p) /\ Kind(lfs, LRel(p)) = "dir" /\ HasChildren(lfs, LRel(p))

\* C3: deleting a directory that is not empty, remote or local, raises
\* nothing out of the delete handler and leaves the tree and the listing
\* as they were.
C3_NonEmptyDirDeleteSwallowed ==
    [][\A i \in 1..(Cardinality(FsNames) + 1) :
          /\ (NonEmptyRemoteDir(i) /\ DeleteRemote(i)) =>
                 (raised' = "None" /\ rfs' = rfs /\ remote_list' = remote_list)
          /\ (NonEmptyLocalDir(i) /\ DeleteLocal(i)) =>
                 (raised' = "None" /\ lfs' = lfs /\ local_list' = local_list)]_vars

\* C4 as stated: in every state of a session remote_path is slash-rooted.
C4_RemotePathAlwaysRooted == tab # "none" => Rooted(remote_path)

\* C4 as amended: a session whose profile gives a slash-rooted remote_path
\* has a slash-rooted remote_path in every state, after any parent
\* navigation, descent and "cd <arg>" command.
C4_RootedProfileStaysRooted ==
    (tab # "none" /\ Rooted(cfg.remote_path)) => Rooted(remote_path)

\* a session opened on a rooted profile path, moved by cd below it and back
C4_Witness ==
    /\ tab = "open" /\ op = "send_term"
    /\ cfg.remote_path = << SLASH, "a" >>
    /\ remote_path = << SLASH >>

\* the names of a path: its segments between slashes that are not empty
RECURSIVE NonEmpty(_)
NonEmpty(comps) ==
    IF comps = << >> THEN << >>
    ELSE (IF Head(comps) = << >> THEN << >> ELSE << Head(comps) >>) \o NonEmpty(Tail(comps))

PathNames(path) == NonEmpty(Split(path, SLASH))

\* q is the parent of path: the names of path without the last one, written
\* without a trailing slash unless it is a root (nothing but slashes)
IsParentOf(q, path) ==
    /\ q # << >>
    /\ PathNames(q) = Parent(PathNames(path))
    /\ AllSlashes(q) \/ q[Len(q)] # SLASH
    /\ Rooted(path) => Rooted(q)
    /\ path = << SLASH >> => q = << SLASH >>

C6_EveryCommandForwarded ==
    [][\A text \in CmdTexts :
          (Strip(text) # << >> /\ SendTerm(text)) =>
              /\ raised' = "None"
              /\ Count("channel.send", log') = 1
              /\ StartsWith(Strip(text), CD) =>
                     /\ remote_path' = cd_target(remote_path, Strip(text))
                     /\ Count("list_remote", log') + Count("list_remote_failed", log') = 1
                     /\ log'[Len(log')] = "channel.send"]_vars

\* C7: after a restart the loaded collection is exactly the profiles added
\* through the dialog, in the order added, every field unchanged.
C7_RestartKeepsAddedProfiles == op = "restart" => saved_configs = added

MutationOps ==
    { "rename_remote", "delete_remote", "create_remote_file", "create_remote_dir",
      "upload_file", "rename_local", "delete_local", "create_local_file",
      "create_local_dir" }

Refreshed(calls) ==
    \E e \in { "list_remote", "list_remote_failed", "list_local", "list_local_failed" } :
        Called(e, calls)

\* C8: a mutation that fails (it ends without its refresh) ends in the
\* error dialog, raises nothing out of its handler and leaves both cursors
\* where they were.
C8_FailedMutationShowsError ==
    [][(op' \in MutationOps /\ ~Refreshed(log')) =>
          /\ raised' = "None"
          /\ Called("error_dialog", log')
          /\ remote_path' = remote_path /\ local_path' = local_path]_vars

FullyConnected ==
    /\ transport = "open" /\ sftp = "open"
    /\ ssh_terminal.made /\ ssh_terminal.channel = "live"
    /\ ssh_terminal.pty /\ ssh_terminal.shell /\ ssh_terminal.running

\* C9: opening a tab makes one connect attempt, then one remote and one
\* local listing, in that order; when a step of the connect failed, the
\* error is shown and the session holds no transport, no SFTP client and
\* no shell reader.
C9_OneConnectThenListings ==
    (tab = "open" /\ op \in { "open_new_conn_dialog", "startup" }) =>
        /\ Count("connect", log) = 1
        /\ Count("list_remote", log) + Count("list_remote_failed", log) = 1
        /\ Count("list_local", log) + Count("list_local_failed", log) = 1
        /\ log[Len(log)] \in { "list_local", "list_local_failed" }
        /\ log[Len(log) - 1] \in { "list_remote", "list_remote_failed" }
        /\ ~FullyConnected =>
               /\ Called("error_dialog", log)
               /\ transport = "None" /\ sftp = "None" /\ ~ssh_terminal.made

ReaderClosed == ~ssh_terminal.running /\ ssh_terminal.channel # "live"

ReaderOpen ==
    /\ ssh_terminal.running /\ ssh_terminal.channel = "live"
    /\ ssh_terminal.pty /\ ssh_terminal.shell
    /\ thread = "loop"

\* C10: a shell reader is always either Closed (not running, no live
\* channel) or Open (running on a live channel with pty and shell, its
\* loop started); a failed open leaves it Closed with no loop started.
C10_ClosedOrOpen ==
    ssh_terminal.made =>
        /\ ReaderClosed \/ ReaderOpen
        /\ ~ssh_terminal.running => (thread # "loop" \/ op = "close_tab")

\* C11: close() on a shell reader in any state raises nothing and leaves it
\* not running; with the reader thread scheduled fairly its loop, once
\* close() was called, eventually ends, and so it does once the channel was
\* closed from the remote side, whatever running says.
C11_ReaderLoopTerminates ==
    /\ [](op = "close_tab" => (raised = "None" /\ ~ssh_terminal.running))
    /\ (thread = "loop" /\ ~ssh_terminal.running) ~> (thread = "exited")
    /\ (thread = "loop" /\ ssh_terminal.channel = "closed") ~> (thread = "exited")

\* the loop has ended after a close() whose channel.close() raised: the
\* channel is still live and only the running flag stopped the loop
C11_Witness ==
    /\ op = "close_tab" /\ thread = "exited"
    /\ ssh_terminal.made /\ ~ssh_terminal.running
    /\ ssh_terminal.channel = "live"

\* C12: every chunk the reader thread reads from the channel reaches the
\* terminal display: none is emitted while no listener is attached.
C12_NoOutputLost == dropped = 0

====
